---- MODULE Spec2Model ----
(***************************************************************************)
(* Model of ros/src/waypoint_updater/waypoint_updater.py: the              *)
(* WaypointUpdater node.  The three subscriber callbacks (pose_cb,         *)
(* base_waypoints_cb, traffic_cb; lines 52-56) are each called from the    *)
(* receive thread of their own topic, one message at a time, and a worker  *)
(* thread started by pose_cb (line 142) runs publish_waypoints.  All of    *)
(* them share the fields of the one WaypointUpdater object without a lock, *)
(* so a read or write of a shared field is a step of its own.              *)
(*                                                                         *)
(* Numbers.  Positions are integers (metres).  Speeds and path lengths are *)
(* fixed point, in thousandths, and sqrt is the floor of the square root   *)
(* at that resolution; the routes used keep every segment                  *)
(* length a whole number, so the comparisons the code makes (vel < 2.0,    *)
(* min(vel, base)) come out as they do on the floats.  The source is       *)
(* Python 2 (it imports the module thread), so 1 / LOOKAHEAD_WPS is the    *)
(* integer division.  Python list index k is index k + 1 of a sequence.    *)
(***************************************************************************)
EXTENDS Integers, Sequences, FiniteSets

(***************************************************************************)
(* State.  The fields of the WaypointUpdater object (__init__, lines       *)
(* 42-47), the position of each callback thread, the worker threads with   *)
(* their local variables, and what the run has received and published.     *)
(***************************************************************************)
VARIABLES
    pose,              \* self.pose: None or the message [x, y, seq]
    base_waypoints,    \* self.base_waypoints: None or the route
    stopline_wp_idx,   \* self.stopline_wp_idx
    waypoints_2d,      \* self.waypoints_2d: None or the list of [x, y]
    waypoint_tree,     \* self.waypoint_tree: None or the KDTree
    thread_working,    \* self.thread_working
    pcPose,            \* pose_cb: "idle" or "dispatch" (before line 137)
    pcBase,            \* base_waypoints_cb: "idle", "index" (156), "tree" (158)
    cbWaypoints,       \* base_waypoints_cb's parameter waypoints
    worker,            \* worker threads: locals of publish_waypoints and callees
    published,         \* the last Lane given to final_waypoints_pub, or None
    nPose,             \* pose messages received
    nTraffic,          \* stop-index messages received
    nStarted,          \* worker threads started
    nPub,              \* windows published
    lastTrigger        \* seq of the pose message that started the last
                       \* worker that ran to its end

vars == <<pose, base_waypoints, stopline_wp_idx, waypoints_2d, waypoint_tree,
          thread_working, pcPose, pcBase, cbWaypoints, worker, published,
          nPose, nTraffic, nStarted, nPub, lastTrigger>>

(***************************************************************************)
(* Module constants of the source.                                         *)
(***************************************************************************)
LOOKAHEAD_WPS == 50

CONSTANT_DECEL == 1 \div LOOKAHEAD_WPS

STOP_LINE_MARGIN == 2

\* MAX_DECL = 0.5, in thousandths
MAX_DECL == 500

\* the threshold 2.0 of decelerate_waypoints, in thousandths
MIN_VEL == 2000

\* a whole number of the source's units, in thousandths
Thousandths(n) == n * 1000

\* A field that may hold Python's None is a sequence: empty for None, else
\* the one value it holds.
None == <<>>

Some(v) == <<v>>

Get(field) == field[1]

\* the -1 "no stop line" value of stopline_wp_idx

NO_STOP == -1

Min(a, b) == IF a <= b THEN a ELSE b

Max(a, b) == IF a >= b THEN a ELSE b

(***************************************************************************)
(* math.sqrt at fixed-point resolution: the largest r with r * r <= n.     *)
(***************************************************************************)
RECURSIVE SqrtSearch(_, _, _)
SqrtSearch(n, lo, hi) ==
    IF lo >= hi THEN lo
    ELSE LET mid == (lo + hi + 1) \div 2
         IN  IF mid * mid <= n THEN SqrtSearch(n, mid, hi)
                               ELSE SqrtSearch(n, lo, mid - 1)

Sqrt(n) == SqrtSearch(n, 0, Min(n, 46340))

(***************************************************************************)
(* The lambda dl of distance(): Euclidean distance of two positions, in    *)
(* thousandths.                                                            *)
(***************************************************************************)
dl(a, b) ==
    Sqrt(Thousandths(Thousandths(
             (a.x - b.x) * (a.x - b.x) + (a.y - b.y) * (a.y - b.y)
          + (a.z - b.z) * (a.z - b.z))))

(***************************************************************************)
(* distance(waypoints, wp1, wp2): the loop over range(wp1, wp2 + 1), which *)
(* adds dl(waypoints[wp1], waypoints[i]) and then moves wp1 to i.          *)
(* DistanceRaises: the loop indexes waypoints[i] up to i = wp2, an         *)
(* IndexError when that is past the end of the list.                       *)
(***************************************************************************)
RECURSIVE DistanceLoop(_, _, _, _, _)
DistanceLoop(waypoints, wp1, i, wp2, dist) ==
    IF i > wp2 THEN dist
    ELSE DistanceLoop(waypoints, i, i + 1, wp2,
                      dist + dl(waypoints[wp1 + 1], waypoints[i + 1]))

DistanceRaises(waypoints, wp1, wp2) ==
    wp2 >= wp1 /\ wp2 >= Len(waypoints)

distance(waypoints, wp1, wp2) == DistanceLoop(waypoints, wp1, wp1, wp2, 0)

(***************************************************************************)
(* Python indexing and slicing of a list held as a sequence: seq[k] with   *)
(* k = -1 is the last element; seq[a:b] stops at the end of the list.      *)
(***************************************************************************)
PyIndex(seq, k) == IF k < 0 THEN seq[Len(seq) + k + 1] ELSE seq[k + 1]

PySlice(seq, a, b) == SubSeq(seq, a + 1, Min(b, Len(seq)))

(***************************************************************************)
(* KDTree(points).query([x, y], 1)[1]: the index of the point nearest to   *)
(* (x, y).  The tree is held as the point list it was built from; of       *)
(* several points at the same smallest distance the lowest index answers.  *)
(***************************************************************************)
SqDist(p, x, y) == (p[1] - x) * (p[1] - x) + (p[2] - y) * (p[2] - y)

KDTreeQuery(tree, x, y) ==
    CHOOSE c \in 0..(Len(tree) - 1) :
        /\ \A k \in 0..(Len(tree) - 1) :
               SqDist(tree[c + 1], x, y) <= SqDist(tree[k + 1], x, y)
        /\ \A k \in 0..(c - 1) :
               SqDist(tree[k + 1], x, y) > SqDist(tree[c + 1], x, y)

(***************************************************************************)
(* get_closest_waypoint_id, lines 73-86, on the x and y already read.      *)
(***************************************************************************)
Dot(u, v) == u[1] * v[1] + u[2] * v[2]

HeadingVal(points, idx, x, y) ==
    LET closest_coord == PyIndex(points, idx)
        prev_coord    == PyIndex(points, idx - 1)
    IN  Dot(<<closest_coord[1] - prev_coord[1], closest_coord[2] - prev_coord[2]>>,
            <<x - closest_coord[1], y - closest_coord[2]>>)

\* lines 84-85 left out: the nearest point is returned as it is
ClosestWaypointIdNearest(tree, points, x, y) == KDTreeQuery(tree, x, y)

\* line 85 without the modulo
ClosestWaypointIdNoWrap(tree, points, x, y) ==
    LET closest_idx == KDTreeQuery(tree, x, y)
    IN  IF HeadingVal(points, closest_idx, x, y) > 0
        THEN closest_idx + 1
        ELSE closest_idx

ClosestWaypointId(tree, points, x, y) ==
    LET closest_idx == KDTreeQuery(tree, x, y)
    IN  IF HeadingVal(points, closest_idx, x, y) > 0
        THEN (closest_idx + 1) % Len(points)
        ELSE closest_idx

(***************************************************************************)
(* The list comprehension of base_waypoints_cb, line 157.                  *)
(***************************************************************************)
Waypoints2D(waypoints) ==
    [k \in 1..Len(waypoints) |-> <<waypoints[k].x, waypoints[k].y>>]

(***************************************************************************)
(* One iteration of the loop of decelerate_waypoints, lines 116-126, for   *)
(* slice index i and the stopline_wp_idx read in that iteration.           *)
(***************************************************************************)
StopIdx(stopline, closest_idx) ==
    Max(stopline - closest_idx - STOP_LINE_MARGIN, 0)

\* line 121 with a count kept on the object in place of the loop index
RawVelCounting(waypoints, i, stop_idx) ==
    Sqrt(2 * MAX_DECL * distance(waypoints, i, stop_idx)) + Thousandths(nPub)

RawVel(waypoints, i, stop_idx) ==
    Sqrt(2 * MAX_DECL * distance(waypoints, i, stop_idx))
        + Thousandths(i * CONSTANT_DECEL)

\* lines 122-123 left out: the raw velocity is kept as it is
FlooredVelNone(vel) == vel

FlooredVel(vel) == IF vel < MIN_VEL THEN 0 ELSE vel

\* line 125 without the min
DecelPointUncapped(waypoints, i, stopline, closest_idx) ==
    LET stop_idx == StopIdx(stopline, closest_idx)
        vel      == FlooredVel(RawVel(waypoints, i, stop_idx))
        w        == waypoints[i + 1]
    IN  [x |-> w.x, y |-> w.y, z |-> w.z, v |-> vel]

\* line 125 with max for min
DecelPointMax(waypoints, i, stopline, closest_idx) ==
    LET stop_idx == StopIdx(stopline, closest_idx)
        vel      == FlooredVel(RawVel(waypoints, i, stop_idx))
        w        == waypoints[i + 1]
    IN  [x |-> w.x, y |-> w.y, z |-> w.z, v |-> Max(vel, w.v)]

DecelPoint(waypoints, i, stopline, closest_idx) ==
    LET stop_idx == StopIdx(stopline, closest_idx)
        vel      == FlooredVel(RawVel(waypoints, i, stop_idx))
        w        == waypoints[i + 1]
    IN  [x |-> w.x, y |-> w.y, z |-> w.z, v |-> Min(vel, w.v)]

DecelRaises(waypoints, i, stopline, closest_idx) ==
    DistanceRaises(waypoints, i, StopIdx(stopline, closest_idx))

(***************************************************************************)
(* The branch test of generate_wp, line 106.  The field is read twice: s1  *)
(* is the value compared with -1, s2 the value compared with farthest.     *)
(***************************************************************************)
\* line 106 with > for >=
PassThroughStrict(s1, s2, farthest_wp_idx) ==
    s1 = NO_STOP \/ s2 > farthest_wp_idx

PassThrough(s1, s2, farthest_wp_idx) ==
    s1 = NO_STOP \/ s2 >= farthest_wp_idx

(***************************************************************************)
(* Bounds of the model and the inputs the callbacks are driven with.       *)
(***************************************************************************)
MaxPoseMsgs == 3

MaxTrafficMsgs == 1

\* worker threads the model can hold at once
MaxWorkers == 2

Workers == 1..MaxWorkers

Straight(L, step, v) ==
    [k \in 1..L |-> [x |-> (k - 1) * step, y |-> 0, z |-> 0, v |-> v]]

\* five points 4 m apart on the x axis, base speed 2.5
RouteLine == Straight(5, 4, 2500)

\* a closed loop over a square of side 4 m that climbs 3 m and comes back
\* down (segments of 5, 4, 5 and 4 m), mixed base speeds
RouteSquare ==
    << [x |-> 0, y |-> 0, z |-> 0, v |-> 5000],
       [x |-> 4, y |-> 0, z |-> 3, v |-> 2000],
       [x |-> 4, y |-> 4, z |-> 3, v |-> 0],
       [x |-> 0, y |-> 4, z |-> 0, v |-> 5000] >>

\* the shortest route, and one that repeats a point
RoutePair == Straight(2, 3, 2500)

RouteRepeat ==
    << [x |-> 0, y |-> 0, z |-> 0, v |-> 3000],
       [x |-> 0, y |-> 0, z |-> 0, v |-> 3000],
       [x |-> 5, y |-> 0, z |-> 0, v |-> 1000] >>

\* a route longer than the lookahead: 56 points 1 m apart, base speed 3.0
\* and 1.5 in turn
RouteLong ==
    [k \in 1..56 |-> [x |-> k - 1, y |-> 0, z |-> 0,
                      v |-> IF k % 2 = 0 THEN 3000 ELSE 1500]]

\* the routes, poses and stop indices the callbacks of Spec are driven with;
\* the stop indices are valid for both routes
Routes == {RouteLine, RouteSquare}

\* (15, 1) resolves to the last index of RouteLine
PosePoints == { <<0, 0>>, <<15, 1>> }

StopInputs == {NO_STOP, 3}

IdleWorker ==
    [pc |-> "idle", x |-> 0, xseq |-> 0, y |-> 0, yseq |-> 0,
     closest_wp_idx |-> 0, farthest_wp_idx |-> 0, base_wp |-> <<>>,
     decl_wp |-> <<>>, final_wp |-> <<>>, raised |-> "none", trigger |-> 0]

InFlight(w) == worker[w].pc \notin {"idle", "raised"}

Init ==
    /\ pose = None
    /\ base_waypoints = None
    /\ stopline_wp_idx = NO_STOP
    /\ waypoints_2d = None
    /\ waypoint_tree = None
    /\ thread_working = FALSE
    /\ pcPose = "idle"
    /\ pcBase = "idle"
    /\ cbWaypoints = None
    /\ worker = [w \in Workers |-> IdleWorker]
    /\ published = None
    /\ nPose = 0 /\ nTraffic = 0 /\ nStarted = 0 /\ nPub = 0
    /\ lastTrigger = 0

(***************************************************************************)
(* pose_cb.  Line 136 stores the message; lines 137-142 test the busy flag *)
(* and the route and, when free, set the flag and start a worker thread on *)
(* publish_waypoints.                                                      *)
(***************************************************************************)
\* line 136 guarded the way line 156 guards waypoints_2d: only the first
\* message is kept
StoredPoseOnce(old, msg) == IF old = None THEN Some(msg) ELSE old

StoredPose(old, msg) == Some(msg)

pose_cb_store(p) ==
    /\ pcPose = "idle"
    /\ nPose < MaxPoseMsgs
    /\ pose' = StoredPose(pose, [x |-> p[1], y |-> p[2], seq |-> nPose + 1])
    /\ nPose' = nPose + 1
    /\ pcPose' = "dispatch"
    /\ UNCHANGED <<base_waypoints, stopline_wp_idx, waypoints_2d, waypoint_tree,
                   thread_working, pcBase, cbWaypoints, worker, published,
                   nTraffic, nStarted, nPub, lastTrigger>>

\* pose_cb without the test of the busy flag (line 137)
StartsThreadUnguarded == base_waypoints # None

\* pose_cb without the test of the route (line 138)
StartsThreadNoRoute == ~thread_working

StartsThread == ~thread_working /\ base_waypoints # None

FreeWorker == CHOOSE w \in Workers :
                  /\ worker[w].pc = "idle"
                  /\ \A u \in Workers : worker[u].pc = "idle" => w <= u

pose_cb_dispatch ==
    /\ pcPose = "dispatch"
    /\ pcPose' = "idle"
    /\ IF StartsThread
       THEN /\ \E w \in Workers : worker[w].pc = "idle"
            /\ thread_working' = TRUE
            /\ worker' = [worker EXCEPT ![FreeWorker].pc = "read_x",
                                        ![FreeWorker].trigger = nPose]
            /\ nStarted' = nStarted + 1
       ELSE UNCHANGED <<thread_working, worker, nStarted>>
    /\ UNCHANGED <<pose, base_waypoints, stopline_wp_idx, waypoints_2d,
                   waypoint_tree, pcBase, cbWaypoints, published,
                   nPose, nTraffic, nPub, lastTrigger>>

(***************************************************************************)
(* base_waypoints_cb.  Line 155 stores the route; line 156 tests           *)
(* waypoints_2d and line 157 builds it; line 158 builds the KDTree.        *)
(***************************************************************************)
base_waypoints_cb_store(r) ==
    /\ pcBase = "idle"
    /\ base_waypoints' = Some(r)
    /\ cbWaypoints' = Some(r)
    /\ pcBase' = "index"
    /\ UNCHANGED <<pose, stopline_wp_idx, waypoints_2d, waypoint_tree,
                   thread_working, pcPose, worker, published,
                   nPose, nTraffic, nStarted, nPub, lastTrigger>>

\* "not self.waypoints_2d": None and the empty list are both false
IndexMissing == waypoints_2d = None \/ Get(waypoints_2d) = <<>>

base_waypoints_cb_index ==
    /\ pcBase = "index"
    /\ IF IndexMissing
       THEN /\ waypoints_2d' = Some(Waypoints2D(Get(cbWaypoints)))
            /\ pcBase' = "tree"
            /\ UNCHANGED cbWaypoints
       ELSE /\ pcBase' = "idle"
            /\ cbWaypoints' = None
            /\ UNCHANGED waypoints_2d
    /\ UNCHANGED <<pose, base_waypoints, stopline_wp_idx, waypoint_tree,
                   thread_working, pcPose, worker, published,
                   nPose, nTraffic, nStarted, nPub, lastTrigger>>

base_waypoints_cb_tree ==
    /\ pcBase = "tree"
    /\ waypoint_tree' = waypoints_2d
    /\ pcBase' = "idle"
    /\ cbWaypoints' = None
    /\ UNCHANGED <<pose, base_waypoints, stopline_wp_idx, waypoints_2d,
                   thread_working, pcPose, worker, published,
                   nPose, nTraffic, nStarted, nPub, lastTrigger>>

(***************************************************************************)
(* traffic_cb, lines 163-166: stores msg.data.                             *)
(***************************************************************************)
\* traffic_cb followed by lines 137-142 of pose_cb: a stop update that
\* starts a computation when the node is free
traffic_cb_triggering(data) ==
    /\ nTraffic < MaxTrafficMsgs
    /\ stopline_wp_idx' = data
    /\ nTraffic' = nTraffic + 1
    /\ IF StartsThread /\ pose # None
       THEN /\ \E w \in Workers : worker[w].pc = "idle"
            /\ thread_working' = TRUE
            /\ worker' = [worker EXCEPT ![FreeWorker].pc = "read_x",
                                        ![FreeWorker].trigger = nPose]
            /\ nStarted' = nStarted + 1
       ELSE UNCHANGED <<thread_working, worker, nStarted>>
    /\ UNCHANGED <<pose, base_waypoints, waypoints_2d, waypoint_tree,
                   pcPose, pcBase, cbWaypoints, published, nPose, nPub,
                   lastTrigger>>

traffic_cb(data) ==
    /\ nTraffic < MaxTrafficMsgs
    /\ stopline_wp_idx' = data
    /\ nTraffic' = nTraffic + 1
    /\ UNCHANGED <<pose, base_waypoints, waypoints_2d, waypoint_tree,
                   thread_working, pcPose, pcBase, cbWaypoints, worker,
                   published, nPose, nStarted, nPub, lastTrigger>>

(***************************************************************************)
(* The worker thread: publish_waypoints -> generate_wp ->                  *)
(* get_closest_waypoint_id / decelerate_waypoints -> distance.  An         *)
(* exception ends the thread where it is raised: nothing catches it, so    *)
(* line 97 is not reached.                                                 *)
(***************************************************************************)
WorkerFrame == <<pose, base_waypoints, stopline_wp_idx, waypoints_2d,
                 waypoint_tree, pcPose, pcBase, cbWaypoints,
                 nPose, nTraffic, nStarted>>

\* line 71: x = self.pose.pose.position.x
worker_read_x(w) ==
    /\ worker[w].pc = "read_x"
    /\ worker' = [worker EXCEPT ![w].x = Get(pose).x,
                                ![w].xseq = Get(pose).seq,
                                ![w].pc = "read_y"]
    /\ UNCHANGED <<WorkerFrame, thread_working, published, nPub, lastTrigger>>

\* line 72: y = self.pose.pose.position.y
worker_read_y(w) ==
    /\ worker[w].pc = "read_y"
    /\ worker' = [worker EXCEPT ![w].y = Get(pose).y,
                                ![w].yseq = Get(pose).seq,
                                ![w].pc = "query"]
    /\ UNCHANGED <<WorkerFrame, thread_working, published, nPub, lastTrigger>>

\* lines 73-86: self.waypoint_tree.query(...) raises AttributeError on None
worker_query(w) ==
    /\ worker[w].pc = "query"
    /\ IF waypoint_tree = None
       THEN worker' = [worker EXCEPT ![w].pc = "raised",
                                     ![w].raised = "AttributeError"]
       ELSE worker' = [worker EXCEPT
                ![w].closest_wp_idx =
                    ClosestWaypointId(Get(waypoint_tree), Get(waypoints_2d),
                                      worker[w].x, worker[w].y),
                ![w].pc = "slice"]
    /\ UNCHANGED <<WorkerFrame, thread_working, published, nPub, lastTrigger>>

\* lines 103-104
worker_slice(w) ==
    /\ worker[w].pc = "slice"
    /\ LET farthest == worker[w].closest_wp_idx + LOOKAHEAD_WPS
       IN  worker' = [worker EXCEPT
                ![w].farthest_wp_idx = farthest,
                ![w].base_wp = PySlice(Get(base_waypoints),
                                       worker[w].closest_wp_idx, farthest),
                ![w].pc = "test_none"]
    /\ UNCHANGED <<WorkerFrame, thread_working, published, nPub, lastTrigger>>

\* line 106, left operand: self.stopline_wp_idx == -1
worker_test_none(w) ==
    /\ worker[w].pc = "test_none"
    /\ IF PassThrough(stopline_wp_idx, NO_STOP, worker[w].farthest_wp_idx)
       THEN worker' = [worker EXCEPT ![w].final_wp = worker[w].base_wp,
                                     ![w].pc = "publish"]
       ELSE worker' = [worker EXCEPT ![w].pc = "test_far"]
    /\ UNCHANGED <<WorkerFrame, thread_working, published, nPub, lastTrigger>>

\* line 106, right operand: self.stopline_wp_idx >= farthest_wp_idx; the
\* else branch enters decelerate_waypoints with decl_wp = []
worker_test_far(w) ==
    /\ worker[w].pc = "test_far"
    /\ IF PassThrough(0, stopline_wp_idx, worker[w].farthest_wp_idx)
       THEN worker' = [worker EXCEPT ![w].final_wp = worker[w].base_wp,
                                     ![w].pc = "publish"]
       ELSE IF Len(worker[w].base_wp) = 0
            THEN worker' = [worker EXCEPT ![w].final_wp = <<>>,
                                          ![w].pc = "publish"]
            ELSE worker' = [worker EXCEPT ![w].decl_wp = <<>>,
                                          ![w].pc = "decelerate"]
    /\ UNCHANGED <<WorkerFrame, thread_working, published, nPub, lastTrigger>>

\* line 117 as p = waypoints[i] in place of p = Waypoint(): line 125 then
\* writes the speed into the waypoint object that the route holds
worker_decelerate_inplace(w) ==
    /\ worker[w].pc = "decelerate"
    /\ LET i    == Len(worker[w].decl_wp)
           wps  == worker[w].base_wp
           cidx == worker[w].closest_wp_idx
           at   == cidx + i + 1
       IN  IF DecelRaises(wps, i, stopline_wp_idx, cidx)
           THEN /\ worker' = [worker EXCEPT ![w].pc = "raised",
                                            ![w].raised = "IndexError"]
                /\ UNCHANGED base_waypoints
           ELSE LET p    == DecelPoint(wps, i, stopline_wp_idx, cidx)
                    next == Append(worker[w].decl_wp, p)
                IN  /\ worker' = [worker EXCEPT
                           ![w].decl_wp = next,
                           ![w].final_wp = IF Len(next) = Len(wps)
                                           THEN next ELSE @,
                           ![w].pc = IF Len(next) = Len(wps)
                                     THEN "publish" ELSE @]
                    /\ IF at <= Len(Get(base_waypoints))
                       THEN base_waypoints' =
                                Some([Get(base_waypoints) EXCEPT ![at] = p])
                       ELSE UNCHANGED base_waypoints
    /\ UNCHANGED <<pose, stopline_wp_idx, waypoints_2d, waypoint_tree, pcPose,
                   pcBase, cbWaypoints, nPose, nTraffic, nStarted,
                   thread_working, published, nPub, lastTrigger>>

\* lines 115-128: one iteration of the loop; after the last one the list is
\* returned to generate_wp
worker_decelerate(w) ==
    /\ worker[w].pc = "decelerate"
    /\ LET i    == Len(worker[w].decl_wp)
           wps  == worker[w].base_wp
           cidx == worker[w].closest_wp_idx
       IN  IF DecelRaises(wps, i, stopline_wp_idx, cidx)
           THEN worker' = [worker EXCEPT ![w].pc = "raised",
                                         ![w].raised = "IndexError"]
           ELSE LET next == Append(worker[w].decl_wp,
                                   DecelPoint(wps, i, stopline_wp_idx, cidx))
                IN  IF Len(next) = Len(wps)
                    THEN worker' = [worker EXCEPT ![w].decl_wp = next,
                                                  ![w].final_wp = next,
                                                  ![w].pc = "publish"]
                    ELSE worker' = [worker EXCEPT ![w].decl_wp = next]
    /\ UNCHANGED <<WorkerFrame, thread_working, published, nPub, lastTrigger>>

\* line 92: self.final_waypoints_pub.publish(final_wp)
worker_publish(w) ==
    /\ worker[w].pc = "publish"
    /\ published' = Some(worker[w].final_wp)
    /\ nPub' = nPub + 1
    /\ worker' = [worker EXCEPT ![w].pc = "clear"]
    /\ UNCHANGED <<WorkerFrame, thread_working, lastTrigger>>

\* line 97: self.thread_working = False, and the thread ends
worker_clear(w) ==
    /\ worker[w].pc = "clear"
    /\ thread_working' = FALSE
    /\ worker' = [worker EXCEPT ![w] = IdleWorker]
    /\ lastTrigger' = worker[w].trigger
    /\ UNCHANGED <<WorkerFrame, published, nPub>>

WorkerStep(w) ==
    \/ worker_read_x(w)
    \/ worker_read_y(w)
    \/ worker_query(w)
    \/ worker_slice(w)
    \/ worker_test_none(w)
    \/ worker_test_far(w)
    \/ worker_decelerate(w)
    \/ worker_publish(w)
    \/ worker_clear(w)

Next ==
    \/ \E p \in PosePoints : pose_cb_store(p)
    \/ pose_cb_dispatch
    \/ \E r \in Routes : base_waypoints_cb_store(r)
    \/ base_waypoints_cb_index
    \/ base_waypoints_cb_tree
    \/ \E data \in StopInputs : traffic_cb(data)
    \/ \E w \in Workers : WorkerStep(w)

Spec == Init /\ [][Next]_vars

(***************************************************************************)
(* A loaded node.  Both specifications below start where                   *)
(* base_waypoints_cb has run to its end on a route and pose_cb has stored  *)
(* a first pose and is about to test the busy flag, with some stop index   *)
(* already received.                                                       *)
(*   SpecCompute: the same pose is sent again each time the node is idle,  *)
(*   the stop index stays: repeated computations on unchanged inputs.      *)
(*   SpecMidFlight: one computation, under which the stop index changes.   *)
(***************************************************************************)
ShortRoutes == {RouteLine, RouteSquare, RoutePair, RouteRepeat}

GridPoints == {<<px, py>> : px \in {-1, 0, 2, 4, 5}, py \in {-1, 0, 3, 4}}
                  \cup {<<17, 0>>, <<14, 1>>, <<9, -2>>}

LongPoints == {<<0, 0>>, <<3, 1>>, <<30, -1>>, <<52, 0>>, <<60, 0>>}

LongStops == {NO_STOP, 0, 10, 31, 49, 50, 52, 53, 55}

ValidStops(r) == {NO_STOP} \cup 0..(Len(r) - 1)

\* <<route, pose, stop index>>: on the short routes every pose of the grid
\* with every valid stop index, and the long route
ComputeInputs ==
    UNION {{<<r, p, s>> : p \in GridPoints, s \in ValidStops(r)} :
              r \in ShortRoutes}
        \cup {<<RouteLong, p, s>> : p \in LongPoints, s \in LongStops}

MidFlightInputs ==
    UNION {{<<r, p, s>> : p \in {<<0, 0>>, <<5, 1>>}, s \in ValidStops(r)} :
              r \in ShortRoutes}
        \cup {<<RouteLong, p, s>> : p \in {<<0, 0>>, <<3, 1>>},
                                    s \in {NO_STOP, 10, 49, 50}}
        \cup {<<RouteLong, <<52, 0>>, 53>>, <<RouteLong, <<52, 0>>, 55>>}

\* the stop indices sent to a loaded node: valid indices of its route
StopChanges ==
    IF Get(base_waypoints) = RouteLong
    THEN {NO_STOP, 10, 53}
    ELSE {NO_STOP, 1, Len(Get(base_waypoints)) - 1}

Loaded(in) ==
    /\ pose = Some([x |-> in[2][1], y |-> in[2][2], seq |-> 1])
    /\ base_waypoints = Some(in[1])
    /\ stopline_wp_idx = in[3]
    /\ waypoints_2d = Some(Waypoints2D(in[1]))
    /\ waypoint_tree = Some(Waypoints2D(in[1]))
    /\ thread_working = FALSE
    /\ pcPose = "dispatch"
    /\ pcBase = "idle"
    /\ cbWaypoints = None
    /\ worker = [w \in Workers |-> IdleWorker]
    /\ published = None
    /\ nPose = 1 /\ nTraffic = 0 /\ nStarted = 0 /\ nPub = 0
    /\ lastTrigger = 0

InitCompute == \E in \in ComputeInputs : Loaded(in)

NextCompute ==
    \/ /\ \A w \in Workers : worker[w].pc = "idle"
       /\ pose_cb_store(<<Get(pose).x, Get(pose).y>>)
    \/ pose_cb_dispatch
    \/ \E w \in Workers : WorkerStep(w)

SpecCompute == InitCompute /\ [][NextCompute]_vars

InitMidFlight == \E in \in MidFlightInputs : Loaded(in)

NextMidFlight ==
    \/ pose_cb_dispatch
    \/ \E data \in StopChanges : traffic_cb(data)
    \/ \E w \in Workers : WorkerStep(w)

SpecMidFlight == InitMidFlight /\ [][NextMidFlight]_vars

(***************************************************************************)
(* Properties.                                                             *)
(***************************************************************************)
InFlightSet == {w \in Workers : InFlight(w)}

HasReadPose(w) == worker[w].pc \notin {"idle", "read_x", "read_y"}

\* C1 (overlap guard): at most one worker thread is computing at any time,
\* and one is computing only while thread_working is set; a pose update
\* handled while the flag is set starts none.
C1_AtMostOneInFlight ==
    /\ Cardinality(InFlightSet) <= 1
    /\ InFlightSet # {} => thread_working
    /\ nStarted <= nPose

\* a pose update newer than the one that started the computation in flight
\* has been handled in full, and started nothing
C1_Witness ==
    \E w \in Workers :
        /\ InFlight(w)
        /\ pcPose = "idle"
        /\ Get(pose).seq > worker[w].trigger
        /\ nStarted = nPub + 1

\* C5 (not ready): as long as no route has been received, pose updates
\* start no worker, nothing is published and nothing is raised.
C5_NotReadySkips ==
    base_waypoints = None =>
        /\ nStarted = 0
        /\ nPub = 0
        /\ published = None
        /\ \A w \in Workers : worker[w] = IdleWorker
        /\ ~thread_working

\* a pose update has been handled in full before any route arrived
C5_Witness ==
    /\ base_waypoints = None
    /\ nPose >= 1
    /\ pcPose = "idle"

\* C6 (route loaded once): the track and the spatial index describe the same
\* point sequence whenever both are set.
C6_TrackMatchesIndex ==
    (base_waypoints # None /\ waypoint_tree # None) =>
        Get(waypoint_tree) = Waypoints2D(Get(base_waypoints))

\* C8 (latest pose): a computation resolves its position from a pose message
\* at least as recent as the one whose arrival started it, hence newer than
\* the message that started the previous computation and than every message
\* dropped while that one ran.
C8_UsesLatestPose ==
    \A w \in Workers :
        /\ worker[w].pc # "idle" => worker[w].trigger > lastTrigger
        /\ HasReadPose(w) =>
               /\ worker[w].xseq >= worker[w].trigger
               /\ worker[w].yseq >= worker[w].trigger

\* a second computation has read its pose after a message was dropped while
\* the first one ran
C8_Witness ==
    \E w \in Workers :
        /\ HasReadPose(w)
        /\ lastTrigger >= 1
        /\ worker[w].trigger >= lastTrigger + 2
        /\ worker[w].xseq = worker[w].trigger

\* the worker has its closest index (line 102 has returned)
HasResolved(w) ==
    worker[w].pc \in {"slice", "test_none", "test_far", "decelerate",
                      "publish", "clear"}

\* the worker holds the window it publishes (line 91 has returned)
HasWindow(w) == worker[w].pc \in {"publish", "clear"}

\* the route point that window element k (from 1) of a worker stands for
RoutePoint(w, k) == Get(base_waypoints)[worker[w].closest_wp_idx + k]

\* C2 (speed cap): every point of a published window, passed through or
\* decelerated, has a target speed from 0 up to the base speed of the route
\* point it stands for.
C2_SpeedCap ==
    \A w \in Workers :
        worker[w].pc = "clear" =>
            \A k \in 1..Len(Get(published)) :
                /\ Get(published)[k].v >= 0
                /\ Get(published)[k].v <= RoutePoint(w, k).v

\* a full decelerated window is published that holds a point slowed below
\* its base speed, a point capped at its base speed and a stopped point
C2_Witness ==
    \E w \in Workers :
        /\ worker[w].pc = "clear"
        /\ Len(worker[w].decl_wp) = LOOKAHEAD_WPS
        /\ Get(published) = worker[w].decl_wp
        /\ \E k \in 1..LOOKAHEAD_WPS :
               /\ Get(published)[k].v > 0
               /\ Get(published)[k].v < RoutePoint(w, k).v
        /\ \E k \in 1..LOOKAHEAD_WPS :
               /\ Get(published)[k].v = RoutePoint(w, k).v
               /\ StopIdx(stopline_wp_idx, worker[w].closest_wp_idx) > k
        /\ \E k \in 1..LOOKAHEAD_WPS :
               /\ Get(published)[k].v = 0
               /\ RoutePoint(w, k).v > 0

\* the heading test of the claim: track[k] - track[k - 1, wrapping] against
\* P - track[k]
BehindDot(track, k, px, py) ==
    LET L    == Len(track)
        cur  == track[k + 1]
        prev == track[((k + L - 1) % L) + 1]
    IN  (cur[1] - prev[1]) * (px - cur[1]) + (cur[2] - prev[2]) * (py - cur[2])

\* C3 (never behind): the index a computation resolves its pose to passes
\* the heading test: the dot product is not positive.
C3_NeverBehind ==
    \A w \in Workers :
        HasResolved(w) =>
            BehindDot(Get(waypoints_2d), worker[w].closest_wp_idx,
                      worker[w].x, worker[w].y) <= 0

\* the resolver has advanced past the nearest point, the last of the route,
\* and wrapped to index 0
C3_Witness ==
    \E w \in Workers :
        /\ HasResolved(w)
        /\ worker[w].closest_wp_idx = 0
        /\ KDTreeQuery(Get(waypoint_tree), worker[w].x, worker[w].y)
               = Len(Get(waypoints_2d)) - 1
        /\ Len(Get(waypoints_2d)) > 2

\* the base speeds of track[c : c + LOOKAHEAD_WPS]
BaseSpeeds(track, c) ==
    [k \in 1..Min(LOOKAHEAD_WPS, Len(track) - c) |-> track[c + k].v]

WindowSpeeds(window) == [k \in 1..Len(window) |-> window[k].v]

StopIsPassThrough(w) ==
    \/ stopline_wp_idx = NO_STOP
    \/ stopline_wp_idx >= worker[w].closest_wp_idx + LOOKAHEAD_WPS

\* C4 (identity pass-through): with the stop index -1 or at least
\* closest + LOOKAHEAD_WPS, the window's speeds are the base speeds of
\* track[closest : closest + LOOKAHEAD_WPS], element by element.
C4_PassThrough ==
    \A w \in Workers :
        (HasWindow(w) /\ StopIsPassThrough(w)) =>
            WindowSpeeds(worker[w].final_wp)
                = BaseSpeeds(Get(base_waypoints), worker[w].closest_wp_idx)

\* a full window is passed through for a stop index that is exactly
\* closest + LOOKAHEAD_WPS
C4_Witness ==
    \E w \in Workers :
        /\ HasWindow(w)
        /\ stopline_wp_idx = worker[w].closest_wp_idx + LOOKAHEAD_WPS
        /\ Len(worker[w].final_wp) = LOOKAHEAD_WPS

\* C7 (stop index changed mid-flight): no index used by distance() leaves
\* the slice, so no computation ends in an IndexError.
C7_NoIndexError ==
    \A w \in Workers : worker[w].raised # "IndexError"

\* C9 (runs to completion): thread_working is set only while a worker is on
\* its way to line 97, so every started computation publishes and clears it.
C9_BusyOnlyWhileRunning ==
    thread_working => InFlightSet # {}

\* C10 (idempotence): with pose, route and stop index unchanged, the window
\* a computation is about to publish is the window published before it.
C10_Idempotent ==
    \A w \in Workers :
        (worker[w].pc = "publish" /\ published # None) =>
            worker[w].final_wp = Get(published)

\* a second decelerated window with a moving point is about to be published
C10_Witness ==
    \E w \in Workers :
        /\ worker[w].pc = "publish"
        /\ published # None
        /\ worker[w].final_wp = worker[w].decl_wp
        /\ \E k \in 1..Len(worker[w].final_wp) :
               /\ worker[w].final_wp[k].v > 0
               /\ worker[w].final_wp[k].v < RoutePoint(w, k).v

\* the decelerated point a worker appended last, its slice index, and the
\* raw velocity of line 121 for it under the stop index now stored
LastDecel(w) == worker[w].decl_wp[Len(worker[w].decl_wp)]

LastRawVel(w) ==
    RawVel(worker[w].base_wp, Len(worker[w].decl_wp) - 1,
           StopIdx(stopline_wp_idx, worker[w].closest_wp_idx))

\* C11 (zero floor): a decelerated point whose raw velocity is below 2.0 is
\* reported with target speed exactly 0; a reported speed strictly between
\* 0 and 2.0 is never the raw velocity, only the base speed of a point whose
\* raw velocity is 2.0 or more.
C11_ZeroFloor ==
    \A w \in Workers :
        Len(worker[w].decl_wp) > 0 =>
            /\ LastRawVel(w) < MIN_VEL => LastDecel(w).v = 0
            /\ (LastDecel(w).v > 0 /\ LastDecel(w).v < MIN_VEL) =>
                   /\ LastRawVel(w) >= MIN_VEL
                   /\ LastDecel(w).v = worker[w].base_wp[Len(worker[w].decl_wp)].v

\* a point with base speed above 0 and raw velocity strictly between 0 and
\* 2.0 has been reported with speed 0
C11_Witness ==
    \E w \in Workers :
        /\ Len(worker[w].decl_wp) > 0
        /\ LastRawVel(w) > 0
        /\ LastRawVel(w) < MIN_VEL
        /\ worker[w].base_wp[Len(worker[w].decl_wp)].v > 0
        /\ LastDecel(w).v = 0

\* the index nearest to the pose a worker has read
NearestIdx(w) == KDTreeQuery(Get(waypoint_tree), worker[w].x, worker[w].y)

\* C12 (resolver): with c the nearest index and p the point at c - 1
\* (L - 1 when c = 0), the resolved index is (c + 1) mod L exactly when
\* dot(c - p, pose - c) > 0 and c otherwise, and it is an index in 0..L-1.
C12_Resolver ==
    \A w \in Workers :
        HasResolved(w) =>
            LET L == Len(Get(waypoints_2d))
                c == NearestIdx(w)
                d == BehindDot(Get(waypoints_2d), c, worker[w].x, worker[w].y)
            IN  /\ worker[w].closest_wp_idx = (IF d > 0 THEN (c + 1) % L ELSE c)
                /\ worker[w].closest_wp_idx \in 0..(L - 1)

\* the nearest point is index 0, so p is the last point of the route, and
\* the resolver has advanced to index 1
C12_Witness ==
    \E w \in Workers :
        /\ HasResolved(w)
        /\ NearestIdx(w) = 0
        /\ Len(Get(waypoints_2d)) > 2
        /\ BehindDot(Get(waypoints_2d), 0, worker[w].x, worker[w].y) > 0
        /\ worker[w].closest_wp_idx = 1

\* position of a waypoint
Position(wp) == <<wp.x, wp.y, wp.z>>

\* C13 (linear window): the slice a computation takes is the run of route
\* points from closest_wp_idx on, element k being track[closest + k], of
\* length min(LOOKAHEAD_WPS, L - closest), which is between 1 and
\* LOOKAHEAD_WPS; the window handed to the publisher, passed through or
\* decelerated, has the length and the positions of that slice.
C13_LinearWindow ==
    [][\A w \in Workers :
          /\ (worker[w].pc = "slice" /\ worker'[w].pc = "test_none") =>
                LET track == Get(base_waypoints)
                    c     == worker[w].closest_wp_idx
                    win   == worker'[w].base_wp
                IN  /\ Len(win) = Min(LOOKAHEAD_WPS, Len(track) - c)
                    /\ Len(win) >= 1
                    /\ Len(win) <= LOOKAHEAD_WPS
                    /\ \A k \in 1..Len(win) : win[k] = track[c + k]
          /\ (worker[w].pc # "publish" /\ worker'[w].pc = "publish") =>
                /\ Len(worker'[w].final_wp) = Len(worker[w].base_wp)
                /\ \A k \in 1..Len(worker[w].base_wp) :
                       Position(worker'[w].final_wp[k])
                           = Position(worker[w].base_wp[k])
      ]_vars

\* C14 (past the stop offset): an iteration of the deceleration loop, with
\* stop offset max(stopline_wp_idx - closest - STOP_LINE_MARGIN, 0) for the
\* stop index it reads, does not fail for any slice index i, and for
\* i >= stop offset the distance is 0 and the target speed exactly 0.
C14_PastStopOffset ==
    [][\A w \in Workers :
          (worker[w].pc = "decelerate" /\ worker'[w] # worker[w]) =>
              LET i      == Len(worker[w].decl_wp)
                  offset == StopIdx(stopline_wp_idx, worker[w].closest_wp_idx)
              IN  /\ worker'[w].raised = "none"
                  /\ i >= offset =>
                         /\ distance(worker[w].base_wp, i, offset) = 0
                         /\ worker'[w].decl_wp[i + 1].v = 0
      ]_vars

\* a step of a worker thread: some worker moves and no thread is started
ComputationStep == worker' # worker /\ nStarted' = nStarted

\* C15 (no side effect on the route): no step of a computation, passed
\* through or decelerated, changes the route (positions and base speeds),
\* the point list or the spatial index.
C15_RouteUntouched ==
    [][ComputationStep =>
           UNCHANGED <<base_waypoints, waypoints_2d, waypoint_tree>>]_vars

\* a decelerated window that slows a point below its base speed has been
\* published, and the route still holds that base speed
C15_Witness ==
    \E w \in Workers :
        /\ worker[w].pc = "clear"
        /\ worker[w].final_wp = worker[w].decl_wp
        /\ Get(published) = worker[w].decl_wp
        /\ \E k \in 1..Len(worker[w].decl_wp) :
               /\ worker[w].closest_wp_idx + k <= Len(Get(base_waypoints))
               /\ RoutePoint(w, k) = worker[w].base_wp[k]
               /\ worker[w].decl_wp[k].v < RoutePoint(w, k).v

\* pose updates handled in full (pose_cb has returned)
PoseHandled == nPose - (IF pcPose = "dispatch" THEN 1 ELSE 0)

\* C16 (only pose updates trigger): a computation is started only by the
\* step of pose_cb that tests the busy flag, one per step; a step of
\* base_waypoints_cb or traffic_cb starts none and moves no worker; so the
\* computations started never exceed the pose updates handled, and the
\* windows published never exceed the computations started.
C16_OnlyPoseTriggers ==
    [][/\ nStarted' # nStarted =>
              /\ pcPose = "dispatch"
              /\ pcPose' = "idle"
              /\ nStarted' = nStarted + 1
       /\ (pcBase' # pcBase \/ nTraffic' # nTraffic) =>
              /\ nStarted' = nStarted
              /\ worker' = worker
       /\ nStarted' <= PoseHandled'
       /\ nPub' <= nStarted'
      ]_vars

\* a route and a stop index have been received, a window has been
\* published, and more pose updates have been handled than windows
\* published
C16_Witness ==
    /\ pcPose = "idle"
    /\ pcBase = "idle"
    /\ waypoint_tree # None
    /\ nTraffic >= 1
    /\ nPub >= 1
    /\ nPose > nPub
    /\ \A w \in Workers : worker[w].pc = "idle"

\* the part of the raw velocity of line 121 that is not the square root,
\* for the point a worker appended last
LastCreep(w) ==
    LastRawVel(w)
        - Sqrt(2 * MAX_DECL
                 * distance(worker[w].base_wp, Len(worker[w].decl_wp) - 1,
                            StopIdx(stopline_wp_idx, worker[w].closest_wp_idx)))

\* C17 (creep term): CONSTANT_DECEL is strictly positive, and the creep term
\* i * CONSTANT_DECEL of the raw velocity is strictly positive for every
\* decelerated point of slice index i > 0.
C17_CreepPositive ==
    \A w \in Workers :
        Len(worker[w].decl_wp) > 1 =>
            /\ CONSTANT_DECEL > 0
            /\ LastCreep(w) > 0

\* C18 (readiness): whenever a computation is in flight, pose,
\* base_waypoints, waypoints_2d and waypoint_tree are all set, and no
\* computation queries a missing index.
C18_ReadyWhileInFlight ==
    \A w \in Workers :
        /\ InFlight(w) =>
               /\ pose # None
               /\ base_waypoints # None
               /\ waypoints_2d # None
               /\ waypoint_tree # None
        /\ worker[w].raised # "AttributeError"

\* C19 (pose snapshot): the x and the y a computation resolves its position
\* from come from one and the same pose message.
C19_PoseSnapshot ==
    \A w \in Workers :
        HasReadPose(w) => worker[w].xseq = worker[w].yseq

\* the stop index is set and not ahead of closest + STOP_LINE_MARGIN
StopBehind(w) ==
    /\ stopline_wp_idx # NO_STOP
    /\ stopline_wp_idx - worker[w].closest_wp_idx - STOP_LINE_MARGIN <= 0

\* C20 (stop behind): with the stop index set and
\* stopline_wp_idx - closest - STOP_LINE_MARGIN <= 0 the stop offset is 0
\* and every point of the window has target speed exactly 0.
C20_StopBehind ==
    \A w \in Workers :
        (HasWindow(w) /\ StopBehind(w)) =>
            /\ StopIdx(stopline_wp_idx, worker[w].closest_wp_idx) = 0
            /\ Len(worker[w].final_wp) = Len(worker[w].base_wp)
            /\ \A k \in 1..Len(worker[w].final_wp) :
                   worker[w].final_wp[k].v = 0

\* a full window of points with base speed above 0 is reported with speed 0
\* throughout for a stop index behind the closest index
C20_Witness ==
    \E w \in Workers :
        /\ HasWindow(w)
        /\ stopline_wp_idx # NO_STOP
        /\ stopline_wp_idx < worker[w].closest_wp_idx
        /\ Len(worker[w].final_wp) = LOOKAHEAD_WPS
        /\ \A k \in 1..LOOKAHEAD_WPS :
               /\ worker[w].base_wp[k].v > 0
               /\ worker[w].final_wp[k].v = 0

====
